---- MODULE Spec2Model ----
(***************************************************************************)
(* Model of the co-i provider adapters (OpenAIProvider, AnthropicProvider: *)
(* generate and its retry loop _make_api_call) and of the dual-model       *)
(* conversation orchestrator (ModelConversation.run_conversation).         *)
(*                                                                         *)
(* Both are coroutines: an action is one stretch of code between two       *)
(* suspension points (await).                                              *)
(***************************************************************************)
EXTENDS Integers, Sequences, FiniteSets, TLC

\* ------------------------------------------------------------------ bounds
\* Largest max_retries explored (the 60 s cap needs attempt 6, so R >= 7).
MaxRetries == 7
\* max_retries is not validated: values down to -NegRetries are explored.
NegRetries == 1
\* Successive generate calls on one adapter.
MaxCalls == 2
\* Largest token figure a backend response reports per field.
MaxTokens == 1
\* Largest num_turns of a conversation.
MaxTurns == 2
\* Successive run_conversation invocations on one ModelConversation object.
MaxRuns == 2
\* Longest conversation_history an invocation may leave behind: no invocation
\* starts that could exceed it.
MaxHistory == 6
\* Longest API key, in tokens.
MaxKeyLen == 2
\* Largest timeout (seconds) of a configuration; the smallest is -1.
MaxTimeout == 1
\* Transport clients constructed in one behaviour.
MaxClients == 2
\* Largest token count handed to the cost lookup.
MaxCostTokens == 3
\* Longest prompt handed to estimate_cost, in characters.
MaxPromptLen == 8
\* Largest max_retries of the adapters that serve concurrent generate calls.
MaxCallRetries == 1

\* ------------------------------------------------------------------ state
VARIABLES
    provider,      \* the adapter's class: "openai" | "anthropic"
    max_retries,   \* self.config.max_retries
    pc,            \* "idle" | "attempt" (awaiting the transport) | "backoff" (awaiting asyncio.sleep) | "done"
    callNo,        \* number of generate calls started on this adapter
    model,         \* the model argument of the current call
    attempt,       \* the loop variable of _make_api_call
    calls_made,    \* transport calls issued by the current generate call
    sleeps,        \* arguments of asyncio.sleep in the current call, in order
    failLog,       \* per failed attempt of the current call: TRUE iff rate-limit signal
    lastExc,       \* the exception the current call is handling (NoExc when none is)
    lastResp,      \* the response the transport returned to the current call
    outcome,       \* what the current generate call returned or raised
    \* ModelConversation: the fields of the object
    model1,                \* self.model1: the kind of adapter ("handler" | "raising")
    model2,                \* self.model2
    initial_prompt,        \* self.initial_prompt
    num_turns,             \* self.num_turns
    has_callback,          \* self.progress_callback is not None
    conversation_history,  \* self.conversation_history: sequence of <<speaker, message>>
    \* run_conversation: the current invocation
    rpc,              \* "idle" | "awaiting" (send_message) | "completed" | "failed"
    turn,             \* the loop variable
    current_prompt,
    current_speaker,
    runNo,            \* number of run_conversation invocations started on the object
    adapterCalls,     \* send_message calls of the current invocation: [adapter, prompt]
    replies,          \* texts send_message returned to the current invocation
    sinkCalls,        \* progress_callback invocations of the current invocation
    returned,         \* the list the current invocation returned (<<>> before)
    raised,           \* the exception that left the current invocation (NoRaise when none)
    failedSteps,      \* [step, error]: the steps of the current invocation whose adapter call failed
    sinkSaw,          \* per progress_callback invocation: the last history entry at that moment
    sinkReturned      \* the value the latest progress_callback invocation returned ("Raised": it raised)

pvars == <<provider, max_retries, pc, callNo, model, attempt, calls_made, sleeps,
           failLog, lastExc, lastResp, outcome>>

cvars == <<model1, model2, initial_prompt, num_turns, has_callback, conversation_history,
           rpc, turn, current_prompt, current_speaker, runNo, adapterCalls, replies,
           sinkCalls, returned, raised, failedSteps, sinkSaw, sinkReturned>>

VARIABLES
    \* ProviderFactory and the construction of a provider adapter
    app_config,       \* the AppConfig handed to the factory
    ctor,             \* the construction in progress or last finished
    clients,          \* how many transport clients (AsyncOpenAI / AsyncAnthropic) were constructed
    fresult,          \* what the latest factory operation returned or raised
    \* _calculate_cost
    cost_args,        \* the arguments of the cost lookup
    cost,             \* its result
    \* two concurrent run_conversation() invocations
    tasks,            \* per task: the orchestrator object it runs on and its locals
    convs             \* per orchestrator object: its fields; each history entry with the task and step that appended it

evars == <<app_config, ctor, clients, fresult, cost_args, cost, tasks, convs>>

VARIABLES
    \* estimate_cost and the request generate builds
    estimate,         \* the latest estimate_cost call: its arguments and result
    request,          \* the latest request_params generate built, with the caller's arguments
    \* generate calls in flight on one event loop
    adapters,         \* per adapter object: its config and its PRICING table
    calls,            \* per generate call: the adapter, the request and the position in the call
    \* the operation a caller awaits to its end
    caller            \* "generate" | "run_conversation"

fvars == <<estimate, request, adapters, calls, caller>>

vars == <<pvars, cvars, evars, fvars>>

\* estimate_cost, request building, concurrent generate calls and the caller
\* are not in use.
NoMore ==
    /\ estimate = "None"
    /\ request = "None"
    /\ adapters = "None"
    /\ calls = "None"
    /\ caller = "None"

\* --------------------------------------------------------- program constants
\* min(2 ** attempt, 60)
BackoffCap == 60

NoModel == "None"

Providers == {"openai", "anthropic"}

\* The model identifiers a request may name (one priced, one unknown).
ModelsOf(p) ==
    IF p = "openai" THEN {"gpt-4", "gpt-9"} ELSE {"claude-3-opus-20240229", "claude-9"}

RetryValues == (0 - NegRetries)..MaxRetries

\* ------------------------------------------------------ backend exceptions
\* Classes of the exceptions the transport (the SDK client) can raise, as the
\* adapters import and catch them.  RateLimitError and AuthenticationError are
\* subclasses of APIError; "Exception" is any other exception.
ExcClasses == {"RateLimitError", "AuthenticationError", "APIError", "Exception"}

Superclasses(c) ==
    CASE c = "RateLimitError"      -> {"RateLimitError", "APIError", "Exception"}
      [] c = "AuthenticationError" -> {"AuthenticationError", "APIError", "Exception"}
      [] c = "APIError"            -> {"APIError", "Exception"}
      [] OTHER                     -> {"Exception"}

IsInstance(e, c) == c \in Superclasses(e.cls)

\* str(e): a text is a sequence of fragments.
Texts ==
    { <<"Connection", "reset">>,
      <<"The", "Model", "x", "was", "Not Found">>,
      <<"model", "overloaded">>,
      <<"resource", "not found">> }

\* Defective variant of Lower: the text is compared without lower-casing it.
LowerSkipped(t) == t

\* str.lower() on one fragment.
LowerWord(w) ==
    CASE w = "Connection" -> "connection"
      [] w = "The"        -> "the"
      [] w = "Model"      -> "model"
      [] w = "Not Found"  -> "not found"
      [] OTHER            -> w

Lower(t) == [i \in DOMAIN t |-> LowerWord(t[i])]

\* needle in text
Contains(t, needle) == \E i \in DOMAIN t : t[i] = needle

Exceptions == [cls : ExcClasses, text : Texts]

NoExc == [cls |-> "None", text |-> <<>>]

\* ------------------------------------------------------- backend responses
\* shape "ok": choices/content and usage present; "empty": no choices (OpenAI)
\* or no content block (Anthropic); "no_usage": usage is None; "none": the
\* value None (the retry loop fell through without returning).
\* total_tokens is the figure the OpenAI backend reports; Anthropic reports none.
Responses(p) ==
    [shape : {"ok"}, prompt_tokens : 0..MaxTokens, completion_tokens : 0..MaxTokens,
     total_tokens : IF p = "openai" THEN 0..(2 * MaxTokens) ELSE {0}]
    \cup
    [shape : {"empty", "no_usage"}, prompt_tokens : {0}, completion_tokens : {0},
     total_tokens : {0}]

NoneResponse ==
    [shape |-> "none", prompt_tokens |-> 0, completion_tokens |-> 0, total_tokens |-> 0]

\* ------------------------------------------------------------ outcomes
NoOutcome ==
    [type |-> "none", kind |-> "None", provider |-> "None", model |-> NoModel,
     prompt_tokens |-> 0, completion_tokens |-> 0, total_tokens |-> 0]

\* ProviderError.__init__(message, provider, model=None) and its subclasses.
ProviderErrorValue(kind, p, m) ==
    [type |-> "error", kind |-> kind, provider |-> p, model |-> m,
     prompt_tokens |-> 0, completion_tokens |-> 0, total_tokens |-> 0]

\* A backend exception that no except clause caught.
RawException(e) ==
    [type |-> "raw", kind |-> e.cls, provider |-> "None", model |-> NoModel,
     prompt_tokens |-> 0, completion_tokens |-> 0, total_tokens |-> 0]

\* AIResponse(...) as built by OpenAIProvider.generate: total_tokens is copied
\* from usage.total_tokens.
OpenAIResponse(resp, m) ==
    [type |-> "result", kind |-> "None", provider |-> "openai", model |-> m,
     prompt_tokens |-> resp.prompt_tokens,
     completion_tokens |-> resp.completion_tokens,
     total_tokens |-> resp.total_tokens]

\* AIResponse(...) as built by AnthropicProvider.generate: total_tokens is
\* usage.input_tokens + usage.output_tokens.
AnthropicResponse(resp, m) ==
    [type |-> "result", kind |-> "None", provider |-> "anthropic", model |-> m,
     prompt_tokens |-> resp.prompt_tokens,
     completion_tokens |-> resp.completion_tokens,
     total_tokens |-> resp.prompt_tokens + resp.completion_tokens]

\* The exception raised while extracting from a response that is not "ok":
\* IndexError (choices[0] / content[0]) or AttributeError (None.usage...).
ExtractionError(resp) ==
    [cls |-> "Exception",
     text |-> IF resp.shape = "empty" THEN <<"list", "index", "out", "of", "range">>
              ELSE <<"NoneType", "has", "no", "attribute">>]

\* Defective variant of MapException: the APIError clause comes before the rate-limit clause.
MapExceptionApiFirst(p, e, m) ==
    IF IsInstance(e, "APIError") THEN
        IF Contains(Lower(e.text), "model") /\ Contains(Lower(e.text), "not found")
        THEN ProviderErrorValue("ModelNotFound", p, m)
        ELSE ProviderErrorValue("ProviderFailure", p, m)
    ELSE IF IsInstance(e, "RateLimitError") THEN ProviderErrorValue("RateLimited", p, m)
    ELSE IF IsInstance(e, "AuthenticationError") THEN ProviderErrorValue("InvalidConfig", p, NoModel)
    ELSE ProviderErrorValue("ProviderFailure", p, m)

\* Defective variant of MapException: the final "except Exception" clause is missing.
MapExceptionNoCatchAll(p, e, m) ==
    IF IsInstance(e, "RateLimitError") THEN ProviderErrorValue("RateLimited", p, m)
    ELSE IF IsInstance(e, "AuthenticationError") THEN ProviderErrorValue("InvalidConfig", p, NoModel)
    ELSE IF IsInstance(e, "APIError") THEN
        IF Contains(Lower(e.text), "model") /\ Contains(Lower(e.text), "not found")
        THEN ProviderErrorValue("ModelNotFound", p, m)
        ELSE ProviderErrorValue("ProviderFailure", p, m)
    ELSE RawException(e)

\* The except clauses of generate, in source order.
MapException(p, e, m) ==
    IF IsInstance(e, "RateLimitError") THEN ProviderErrorValue("RateLimited", p, m)
    ELSE IF IsInstance(e, "AuthenticationError") THEN ProviderErrorValue("InvalidConfig", p, NoModel)
    ELSE IF IsInstance(e, "APIError") THEN
        IF Contains(Lower(e.text), "model") /\ Contains(Lower(e.text), "not found")
        THEN ProviderErrorValue("ModelNotFound", p, m)
        ELSE ProviderErrorValue("ProviderFailure", p, m)
    ELSE IF IsInstance(e, "Exception") THEN ProviderErrorValue("ProviderFailure", p, m)
    ELSE RawException(e)

\* The statements of generate's try block after _make_api_call returned resp.
AfterApiCall(p, resp, m) ==
    IF resp.shape # "ok" THEN MapException(p, ExtractionError(resp), m)
    ELSE IF p = "openai" THEN OpenAIResponse(resp, m)
    ELSE AnthropicResponse(resp, m)

\* ------------------------------------------------------------ retry loop
\* Defective variant of RangeStart: the attempt counter is kept from the previous call.
RangeStartStale == attempt

\* Defective variant of InRange: the retry loop has no upper end.
InRangeUnbounded(a, R) == a >= 0

\* for attempt in range(self.config.max_retries + 1): first value, and whether
\* a value is in the range.
RangeStart == 0

InRange(a, R) == a >= 0 /\ a < R + 1

\* Defective variant of IsLastAttempt: the budget check is off by one.
IsLastAttemptOffByOne(a, R) == a + 1 = R

\* if attempt == self.config.max_retries: raise
IsLastAttempt(a, R) == a = R

Min(a, b) == IF a <= b THEN a ELSE b

\* Defective variant of WaitTime: the cap is applied to rate-limit waits too.
WaitTimeCapAll(e, a) == Min(2 ^ a, BackoffCap)

\* wait_time of the two except clauses of _make_api_call.
WaitTime(e, a) ==
    IF IsInstance(e, "RateLimitError") THEN 2 ^ a
    ELSE Min(2 ^ a, BackoffCap)

\* After construction of an adapter that _validate_config accepted
\* (max_retries is not validated).
InitProvider ==
    /\ provider \in Providers
    /\ max_retries \in RetryValues
    /\ pc = "idle"
    /\ callNo = 0
    /\ model = NoModel
    /\ attempt = 0
    /\ calls_made = 0
    /\ sleeps = <<>>
    /\ failLog = <<>>
    /\ lastExc = NoExc
    /\ lastResp = NoneResponse
    /\ outcome = NoOutcome

\* generate(prompt, model, ...) up to the first await of _make_api_call.
Generate(m) ==
    /\ pc \in {"idle", "done"}
    /\ callNo < MaxCalls
    /\ callNo' = callNo + 1
    /\ model' = m
    /\ attempt' = RangeStart
    /\ sleeps' = <<>>
    /\ failLog' = <<>>
    /\ lastExc' = NoExc
    /\ lastResp' = NoneResponse
    /\ IF InRange(RangeStart, max_retries)
       THEN /\ pc' = "attempt"
            /\ calls_made' = 1
            /\ outcome' = NoOutcome
       ELSE \* empty range: _make_api_call returns None
            /\ pc' = "done"
            /\ calls_made' = 0
            /\ outcome' = AfterApiCall(provider, NoneResponse, m)
    /\ UNCHANGED <<provider, max_retries>>
    /\ UNCHANGED <<cvars, evars, fvars>>

\* The awaited create(**params) returns: _make_api_call returns it and generate
\* runs to its end.
TransportReturns(resp) ==
    /\ pc = "attempt"
    /\ pc' = "done"
    /\ lastResp' = resp
    /\ lastExc' = NoExc
    /\ outcome' = AfterApiCall(provider, resp, model)
    /\ UNCHANGED <<provider, max_retries, callNo, model, attempt, calls_made, sleeps,
                   failLog>>
    /\ UNCHANGED <<cvars, evars, fvars>>

\* The awaited create(**params) raises e: re-raise on the last attempt (generate's
\* except clauses convert it), otherwise start the backoff sleep.
TransportRaises(e) ==
    /\ pc = "attempt"
    /\ lastExc' = e
    /\ failLog' = Append(failLog, IsInstance(e, "RateLimitError"))
    /\ IF IsLastAttempt(attempt, max_retries)
       THEN /\ pc' = "done"
            /\ outcome' = MapException(provider, e, model)
            /\ sleeps' = sleeps
       ELSE /\ pc' = "backoff"
            /\ sleeps' = Append(sleeps, WaitTime(e, attempt))
            /\ outcome' = outcome
    /\ UNCHANGED <<provider, max_retries, callNo, model, attempt, calls_made, lastResp>>
    /\ UNCHANGED <<cvars, evars, fvars>>

\* asyncio.sleep(wait_time) returns: next iteration of the for loop.
BackoffEnds ==
    /\ pc = "backoff"
    /\ attempt' = attempt + 1
    /\ IF InRange(attempt + 1, max_retries)
       THEN /\ pc' = "attempt"
            /\ calls_made' = calls_made + 1
            /\ outcome' = outcome
       ELSE /\ pc' = "done"
            /\ calls_made' = calls_made
            /\ outcome' = AfterApiCall(provider, NoneResponse, model)
    /\ UNCHANGED <<provider, max_retries, callNo, model, sleeps, failLog, lastExc, lastResp>>
    /\ UNCHANGED <<cvars, evars, fvars>>

\* ------------------------------------------------- conversation orchestrator
\* The texts a prompt or a reply can be.
Msgs == {"ping", "pong"}

\* What ClaudeHandler / OpenAIHandler.send_message return when the backend
\* call raises e: f"Error: {str(e)}".
ErrorTexts == {"Error: boom"}

\* The adapters an orchestrator can be given: "handler" is ClaudeHandler or
\* OpenAIHandler (send_message catches every Exception of the backend call and
\* returns the error text), "raising" is any other LLMBase whose send_message
\* lets the failure of its backend call out.
AdapterKinds == {"handler", "raising"}

\* The errors a raising adapter can raise.
AdapterErrors == {"RateLimited", "ProviderFailure"}

\* What the progress callback can return.
SinkReturnValues == {"None", "False"}

\* An exception that reaches the caller of run_conversation has no turn index.
NoTurnIndex == -1

NoRaise == [source |-> "none", error |-> "None", turn_index |-> NoTurnIndex]

\* current_model = self.model1 if current_speaker == "Model 1" else self.model2
CurrentModel(speaker) == IF speaker = "Model 1" THEN "model1" ELSE "model2"

KindOf(speaker) == IF CurrentModel(speaker) = "model1" THEN model1 ELSE model2

\* current_speaker = "Model 2" if current_speaker == "Model 1" else "Model 1"
NextSpeaker(speaker) == IF speaker = "Model 1" THEN "Model 2" ELSE "Model 1"

\* range(self.num_turns * 2)
LoopLength(n) == n * 2

\* The texts send_message of an adapter of this kind can return.
RepliesOf(kind) == IF kind = "handler" THEN Msgs \cup ErrorTexts ELSE Msgs

\* ModelConversation.__init__
InitConversation ==
    /\ model1 \in AdapterKinds
    /\ model2 \in AdapterKinds
    /\ initial_prompt \in Msgs
    /\ num_turns \in 1..MaxTurns
    /\ has_callback \in BOOLEAN
    /\ conversation_history = <<>>
    /\ rpc = "idle"
    /\ turn = 0
    /\ current_prompt = "None"
    /\ current_speaker = "None"
    /\ runNo = 0
    /\ adapterCalls = <<>>
    /\ replies = <<>>
    /\ sinkCalls = <<>>
    /\ returned = <<>>
    /\ raised = NoRaise
    /\ failedSteps = {}
    /\ sinkSaw = <<>>
    /\ sinkReturned = "None"

\* No conversation object is in use.
NoConversation ==
    /\ model1 = "handler"
    /\ model2 = "handler"
    /\ initial_prompt = "ping"
    /\ num_turns = 1
    /\ has_callback = FALSE
    /\ conversation_history = <<>>
    /\ rpc = "idle"
    /\ turn = 0
    /\ current_prompt = "None"
    /\ current_speaker = "None"
    /\ runNo = 0
    /\ adapterCalls = <<>>
    /\ replies = <<>>
    /\ sinkCalls = <<>>
    /\ returned = <<>>
    /\ raised = NoRaise
    /\ failedSteps = {}
    /\ sinkSaw = <<>>
    /\ sinkReturned = "None"

\* No provider adapter is in use.
NoProvider ==
    /\ provider = "openai"
    /\ max_retries = 0
    /\ pc = "idle"
    /\ callNo = 0
    /\ model = NoModel
    /\ attempt = 0
    /\ calls_made = 0
    /\ sleeps = <<>>
    /\ failLog = <<>>
    /\ lastExc = NoExc
    /\ lastResp = NoneResponse
    /\ outcome = NoOutcome

\* run_conversation() up to its first await (no other invocation is in progress).
RunConversation ==
    /\ rpc \in {"idle", "completed", "failed"}
    /\ runNo < MaxRuns
    /\ Len(conversation_history) + LoopLength(num_turns) <= MaxHistory
    /\ runNo' = runNo + 1
    /\ current_prompt' = initial_prompt
    /\ current_speaker' = "Model 1"
    /\ turn' = 0
    /\ replies' = <<>>
    /\ sinkCalls' = <<>>
    /\ raised' = NoRaise
    /\ failedSteps' = {}
    /\ sinkSaw' = <<>>
    /\ sinkReturned' = "None"
    /\ IF 0 < LoopLength(num_turns)
       THEN /\ rpc' = "awaiting"
            /\ adapterCalls' = << [adapter |-> CurrentModel("Model 1"), prompt |-> initial_prompt] >>
            /\ returned' = <<>>
       ELSE /\ rpc' = "completed"
            /\ adapterCalls' = <<>>
            /\ returned' = conversation_history
    /\ UNCHANGED <<model1, model2, initial_prompt, num_turns, has_callback, conversation_history>>
    /\ UNCHANGED <<pvars, evars, fvars>>

\* The rest of a loop iteration once the progress callback (if any) has
\* returned, up to the next await or the return.
Advance(response) ==
    /\ current_prompt' = response
    /\ current_speaker' = NextSpeaker(current_speaker)
    /\ turn' = turn + 1
    /\ IF turn + 1 < LoopLength(num_turns)
       THEN /\ rpc' = "awaiting"
            /\ adapterCalls' = Append(adapterCalls,
                   [adapter |-> CurrentModel(NextSpeaker(current_speaker)), prompt |-> response])
            /\ returned' = returned
       ELSE /\ rpc' = "completed"
            /\ adapterCalls' = adapterCalls
            /\ returned' = conversation_history'

\* An exception e raised at the await or by the callback leaves
\* run_conversation as it is: nothing catches it, nothing is added to it.
Surfaced(source, e) == [source |-> source, error |-> e, turn_index |-> NoTurnIndex]

\* Defective variant of HistoryEntrySeenByCallback: the callback is invoked
\* before the turn is appended.
HistoryEntrySeenBeforeAppend(h, speaker, response) ==
    IF h = <<>> THEN <<"None", "None">> ELSE h[Len(h)]

\* The last entry of self.conversation_history when the callback is invoked:
\* the append precedes the invocation.
HistoryEntrySeenByCallback(h, speaker, response) ==
    Append(h, <<speaker, response>>)[Len(h) + 1]

\* The steps whose adapter call failed, after send_message returned response
\* (a handler returns the error text of a failed backend call).
FailedAfterReturn(response) ==
    IF response \in ErrorTexts
    THEN failedSteps \cup {[step |-> turn + 1, error |-> response]}
    ELSE failedSteps

\* send_message returns response; the progress callback, if there is one, returns.
SendMessageReturns(response) ==
    /\ rpc = "awaiting"
    /\ response \in RepliesOf(KindOf(current_speaker))
    /\ replies' = Append(replies, response)
    /\ failedSteps' = FailedAfterReturn(response)
    /\ conversation_history' = Append(conversation_history, <<current_speaker, response>>)
    /\ sinkCalls' = IF has_callback THEN Append(sinkCalls, <<current_speaker, response>>)
                    ELSE sinkCalls
    /\ sinkSaw' = IF has_callback
                  THEN Append(sinkSaw, HistoryEntrySeenByCallback(conversation_history,
                                                                  current_speaker, response))
                  ELSE sinkSaw
    /\ IF has_callback THEN sinkReturned' \in SinkReturnValues ELSE sinkReturned' = sinkReturned
    /\ Advance(response)
    /\ UNCHANGED <<model1, model2, initial_prompt, num_turns, has_callback, runNo, raised>>
    /\ UNCHANGED <<pvars, evars, fvars>>

\* Defective variant of CallbackRaised: the exception of the callback is
\* swallowed and the loop goes on.
CallbackRaisedSwallowed(response) ==
    /\ Advance(response)
    /\ raised' = raised

\* The progress callback raised: the exception leaves run_conversation.
CallbackRaised(response) ==
    /\ rpc' = "failed"
    /\ raised' = Surfaced("callback", "CallbackError")
    /\ UNCHANGED <<turn, current_prompt, current_speaker, adapterCalls, returned>>

\* send_message returns response and the progress callback raises.
SendMessageReturnsCallbackRaises(response) ==
    /\ rpc = "awaiting"
    /\ has_callback
    /\ response \in RepliesOf(KindOf(current_speaker))
    /\ replies' = Append(replies, response)
    /\ failedSteps' = FailedAfterReturn(response)
    /\ conversation_history' = Append(conversation_history, <<current_speaker, response>>)
    /\ sinkCalls' = Append(sinkCalls, <<current_speaker, response>>)
    /\ sinkSaw' = Append(sinkSaw, HistoryEntrySeenByCallback(conversation_history,
                                                             current_speaker, response))
    /\ sinkReturned' = "Raised"
    /\ CallbackRaised(response)
    /\ UNCHANGED <<model1, model2, initial_prompt, num_turns, has_callback, runNo>>
    /\ UNCHANGED <<pvars, evars, fvars>>

\* send_message raises e (an adapter that does not catch the failure of its
\* backend call): the exception leaves run_conversation.
SendMessageRaises(e) ==
    /\ rpc = "awaiting"
    /\ KindOf(current_speaker) = "raising"
    /\ rpc' = "failed"
    /\ raised' = Surfaced("adapter", e)
    /\ failedSteps' = failedSteps \cup {[step |-> turn + 1, error |-> e]}
    /\ UNCHANGED <<model1, model2, initial_prompt, num_turns, has_callback,
                   conversation_history, runNo, turn, current_prompt, current_speaker,
                   adapterCalls, replies, sinkCalls, returned, sinkSaw, sinkReturned>>
    /\ UNCHANGED <<pvars, evars, fvars>>

\* ------------------------------------------------- construction of an adapter
\* No cost lookup was made.
NoCostArgs == [provider |-> "None", model |-> NoModel, prompt_tokens |-> 0,
               completion_tokens |-> 0]

NoCost == [status |-> "None", value |-> 0]

\* An API key is a string, written as the sequence of its tokens: "sk-" and
\* "ant-" are the pieces the prefixes are made of, "x" is any other text.
KeyTokens == {"sk-", "ant-", "x"}

RECURSIVE SeqsUpTo(_, _)
SeqsUpTo(S, n) ==
    IF n = 0 THEN {<<>>}
    ELSE LET shorter == SeqsUpTo(S, n - 1)
         IN  shorter \cup {Append(q, x) : q \in {r \in shorter : Len(r) = n - 1}, x \in S}

KeyTexts == SeqsUpTo(KeyTokens, MaxKeyLen)

TimeoutValues == (0 - 1)..MaxTimeout

\* ProviderConfig.max_retries when the caller gives none.
DefaultMaxRetries == 3

\* ProviderConfig(api_key, timeout): api_key is a str, max_retries the default.
ProviderConfigs == [api_key : KeyTexts, timeout : TimeoutValues, max_retries : {DefaultMaxRetries}]

\* str.startswith
StartsWith(text, prefix) ==
    /\ Len(text) >= Len(prefix)
    /\ SubSeq(text, 1, Len(prefix)) = prefix

\* The prefix _validate_config of the provider requires: 'sk-' / 'sk-ant-'.
KeyPrefix(p) == IF p = "openai" THEN <<"sk-">> ELSE <<"sk-", "ant-">>

\* _validate_config: the message of the InvalidConfigError it raises, "None"
\* when it returns.
ValidateConfig(p, config) ==
    IF config.api_key = <<>> THEN "API key is required"
    ELSE IF ~StartsWith(config.api_key, KeyPrefix(p)) THEN "API key must start with prefix"
    ELSE IF config.timeout <= 0 THEN "Timeout must be positive"
    ELSE "None"

NoAdapter == [cls |-> "None", api_key |-> <<>>, timeout |-> 0, max_retries |-> 0]

NoMessage == [text |-> "None", listed |-> {}]

NoAvailable == [p \in Providers |-> FALSE]

\* What an operation of this section returned or raised. status is "ok" or
\* the class of the exception; clients is the number of transport clients the
\* operation constructed.
NoResult == [op |-> "None", arg |-> "None", status |-> "None", message |-> NoMessage,
             adapter |-> NoAdapter, name |-> "None", available |-> NoAvailable,
             clients |-> 0]

NoCtor == [cls |-> "None", config |-> [api_key |-> <<>>, timeout |-> 0, max_retries |-> 0]]

\* Defective variant of NewProviderResult: the transport client is created
\* before the configuration is validated.
NewProviderResultClientFirst(p, config) ==
    LET err == ValidateConfig(p, config)
    IN  IF err # "None"
        THEN [NoResult EXCEPT !.op = "construct", !.arg = p, !.status = "InvalidConfigError",
                              !.message = [text |-> err, listed |-> {}], !.clients = 1]
        ELSE [NoResult EXCEPT !.op = "construct", !.arg = p, !.status = "ok",
                              !.adapter = [cls |-> p, api_key |-> config.api_key,
                                           timeout |-> config.timeout,
                                           max_retries |-> config.max_retries],
                              !.clients = 1]

\* OpenAIProvider(config) / AnthropicProvider(config): BaseProvider.__init__
\* stores the config and validates it; only when validation returned does the
\* subclass go on to create its transport client.
NewProviderResult(p, config) ==
    LET err == ValidateConfig(p, config)
    IN  IF err # "None"
        THEN [NoResult EXCEPT !.op = "construct", !.arg = p, !.status = "InvalidConfigError",
                              !.message = [text |-> err, listed |-> {}]]
        ELSE [NoResult EXCEPT !.op = "construct", !.arg = p, !.status = "ok",
                              !.adapter = [cls |-> p, api_key |-> config.api_key,
                                           timeout |-> config.timeout,
                                           max_retries |-> config.max_retries],
                              !.clients = 1]

\* The constructor of provider p is called with config.
NewProvider(p, config) ==
    LET r == NewProviderResult(p, config)
    IN  /\ clients + r.clients <= MaxClients
        /\ ctor' = [cls |-> p, config |-> config]
        /\ fresult' = r
        /\ clients' = clients + r.clients
        /\ UNCHANGED <<app_config, cost_args, cost, tasks, convs>>
        /\ UNCHANGED <<pvars, cvars, fvars>>

InitConstruct ==
    /\ NoProvider
    /\ NoConversation
    /\ app_config = "None"
    /\ ctor = NoCtor
    /\ clients = 0
    /\ fresult = NoResult
    /\ cost_args = NoCostArgs
    /\ cost = NoCost
    /\ tasks = "None"
    /\ convs = "None"
    /\ NoMore

NextConstruct ==
    \E p \in Providers, config \in ProviderConfigs : NewProvider(p, config)

\* Provider adapters are constructed one after another.
SpecConstruct == InitConstruct /\ [][NextConstruct]_vars

\* ------------------------------------------------- provider factory
\* AppConfig.openai_api_key / anthropic_api_key: Optional[str], None when the
\* environment variable is not set.
NoKey == [present |-> FALSE, text |-> <<>>]

SettingKeys == {NoKey} \cup {[present |-> TRUE, text |-> k] : k \in KeyTexts}

\* AppConfig.max_retries values: negative, zero, the default.
SettingRetries == {0 - NegRetries, 0, DefaultMaxRetries}

AppConfigs == [openai_api_key : SettingKeys, anthropic_api_key : SettingKeys,
               request_timeout : TimeoutValues, max_retries : SettingRetries]

\* bool(key), not key: None and '' are false.
Truthy(key) == key.present /\ key.text # <<>>

\* The names create_provider can be asked for: the registered ones and another.
ProviderNames == Providers \cup {"gemini"}

\* The credential of a registered provider in the settings.
KeyOf(name, config) ==
    IF name = "openai" THEN config.openai_api_key ELSE config.anthropic_api_key

\* Defective variant of CreateProviderConfig: max_retries is left at the
\* default of ProviderConfig instead of being taken from the settings.
CreateProviderConfigDefaultRetries(name, config) ==
    [api_key |-> KeyOf(name, config).text, timeout |-> config.request_timeout,
     max_retries |-> DefaultMaxRetries]

\* _create_provider_config once the credential was found.
CreateProviderConfig(name, config) ==
    [api_key |-> KeyOf(name, config).text, timeout |-> config.request_timeout,
     max_retries |-> config.max_retries]

\* create_provider(provider_name, config)
CreateProviderResult(name, config) ==
    IF name \notin Providers
    THEN [NoResult EXCEPT !.op = "create", !.arg = name, !.status = "ValueError",
                          !.message = [text |-> "Unknown provider", listed |-> Providers]]
    ELSE IF ~Truthy(KeyOf(name, config))
    THEN [NoResult EXCEPT !.op = "create", !.arg = name, !.status = "ValueError",
                          !.message = [text |-> "API key not configured", listed |-> {}]]
    ELSE [NewProviderResult(name, CreateProviderConfig(name, config)) EXCEPT !.op = "create"]

\* get_available_providers(config)
AvailableProviders(config) == [p \in Providers |-> Truthy(KeyOf(p, config))]

\* Defective variant of DefaultProviderResult: anthropic is preferred.
DefaultProviderResultAnthropicFirst(config) ==
    LET available == AvailableProviders(config)
    IN  IF ~(\E p \in Providers : available[p])
        THEN [NoResult EXCEPT !.op = "default", !.status = "ValueError",
                              !.message = [text |-> "No providers are configured", listed |-> {}]]
        ELSE IF available["anthropic"]
        THEN [NoResult EXCEPT !.op = "default", !.status = "ok", !.name = "anthropic"]
        ELSE [NoResult EXCEPT !.op = "default", !.status = "ok", !.name = "openai"]

\* get_default_provider(config)
DefaultProviderResult(config) ==
    LET available == AvailableProviders(config)
    IN  IF ~(\E p \in Providers : available[p])
        THEN [NoResult EXCEPT !.op = "default", !.status = "ValueError",
                              !.message = [text |-> "No providers are configured", listed |-> {}]]
        ELSE IF available["openai"]
        THEN [NoResult EXCEPT !.op = "default", !.status = "ok", !.name = "openai"]
        ELSE [NoResult EXCEPT !.op = "default", !.status = "ok", !.name = "anthropic"]

\* ProviderFactory.create_provider(name, app_config); ctor is the constructor
\* call it made, NoCtor when it raised before making one.
CreateProvider(name) ==
    LET r == CreateProviderResult(name, app_config)
    IN  /\ clients + r.clients <= MaxClients
        /\ fresult' = r
        /\ clients' = clients + r.clients
        /\ ctor' = IF name \in Providers /\ Truthy(KeyOf(name, app_config))
                   THEN [cls |-> name, config |-> CreateProviderConfig(name, app_config)]
                   ELSE NoCtor
        /\ UNCHANGED <<app_config, cost_args, cost, tasks, convs>>
        /\ UNCHANGED <<pvars, cvars, fvars>>

\* ProviderFactory.get_available_providers(app_config)
GetAvailableProviders ==
    /\ fresult' = [NoResult EXCEPT !.op = "available", !.status = "ok",
                                   !.available = AvailableProviders(app_config)]
    /\ ctor' = NoCtor
    /\ UNCHANGED <<app_config, clients, cost_args, cost, tasks, convs>>
    /\ UNCHANGED <<pvars, cvars, fvars>>

\* ProviderFactory.get_default_provider(app_config)
GetDefaultProvider ==
    /\ fresult' = DefaultProviderResult(app_config)
    /\ ctor' = NoCtor
    /\ UNCHANGED <<app_config, clients, cost_args, cost, tasks, convs>>
    /\ UNCHANGED <<pvars, cvars, fvars>>

InitFactory ==
    /\ NoProvider
    /\ NoConversation
    /\ app_config \in AppConfigs
    /\ ctor = NoCtor
    /\ clients = 0
    /\ fresult = NoResult
    /\ cost_args = NoCostArgs
    /\ cost = NoCost
    /\ tasks = "None"
    /\ convs = "None"
    /\ NoMore

NextFactory ==
    \/ \E name \in ProviderNames : CreateProvider(name)
    \/ GetAvailableProviders
    \/ GetDefaultProvider

\* The factory operations applied to one AppConfig.
SpecFactory == InitFactory /\ [][NextFactory]_vars

\* ------------------------------------------------------ settings validation
\* AppConfig.default_temperature, in tenths: below 0, 0, the default 0.7, 2
\* and above 2.
TemperatureValues == {0 - 1, 0, 7, 20, 21}

\* Credentials of the settings objects that are validated: absent, empty, an
\* OpenAI key and an Anthropic key.
ValidatedKeys == {NoKey, [present |-> TRUE, text |-> <<>>],
                  [present |-> TRUE, text |-> <<"sk-", "x">>],
                  [present |-> TRUE, text |-> <<"sk-", "ant-">>]}

\* AZURE_OPENAI_API_KEY and AZURE_OPENAI_ENDPOINT: absent, empty or some text.
AzureValues == {NoKey, [present |-> TRUE, text |-> <<>>], [present |-> TRUE, text |-> <<"x">>]}

\* AppConfig with the fields validate_config and the factory read.
ValidatedConfigs ==
    [openai_api_key : ValidatedKeys, anthropic_api_key : ValidatedKeys,
     azure_openai_api_key : AzureValues, azure_openai_endpoint : AzureValues,
     default_temperature : TemperatureValues,
     request_timeout : TimeoutValues, max_retries : SettingRetries]

\* coi.utils.config.get_available_providers(config)
ConfigAvailableProviders(config) ==
    [p \in Providers \cup {"azure"} |->
        IF p = "azure"
        THEN Truthy(config.azure_openai_api_key) /\ Truthy(config.azure_openai_endpoint)
        ELSE Truthy(KeyOf(p, config))]

\* validate_config(config): the message of the ValueError it raises, "None"
\* when it returns.
ValidateAppConfig(config) ==
    LET available_providers == ConfigAvailableProviders(config)
    IN  IF ~(\E p \in DOMAIN available_providers : available_providers[p])
        THEN "No AI providers configured"
        ELSE IF config.default_temperature < 0 \/ config.default_temperature > 20
        THEN "DEFAULT_TEMPERATURE must be between 0 and 2"
        ELSE IF config.request_timeout <= 0
        THEN "REQUEST_TIMEOUT must be positive"
        ELSE IF config.max_retries < 0
        THEN "MAX_RETRIES must be non-negative"
        ELSE "None"

\* validate_config(app_config)
ValidateConfigCall ==
    LET err == ValidateAppConfig(app_config)
    IN  /\ fresult' = IF err = "None"
                      THEN [NoResult EXCEPT !.op = "validate", !.status = "ok"]
                      ELSE [NoResult EXCEPT !.op = "validate", !.status = "ValueError",
                                            !.message = [text |-> err, listed |-> {}]]
        /\ ctor' = NoCtor
        /\ UNCHANGED <<app_config, clients, cost_args, cost, tasks, convs>>
        /\ UNCHANGED <<pvars, cvars, fvars>>

InitSettings ==
    /\ NoProvider
    /\ NoConversation
    /\ app_config \in ValidatedConfigs
    /\ ctor = NoCtor
    /\ clients = 0
    /\ fresult = NoResult
    /\ cost_args = NoCostArgs
    /\ cost = NoCost
    /\ tasks = "None"
    /\ convs = "None"
    /\ NoMore

NextSettings ==
    \/ ValidateConfigCall
    \/ GetDefaultProvider
    \/ \E name \in Providers : CreateProvider(name)

\* One settings object, validated and handed to the factory.
SpecSettings == InitSettings /\ [][NextSettings]_vars

\* ------------------------------------------------- cost lookup
\* PRICING of the provider: USD per 1K tokens, written in units of 0.00001 USD
\* (0.03 is 3000, 0.00025 is 25) so that every rate is an integer.
Pricing(p) ==
    IF p = "openai"
    THEN ("gpt-4" :> [input |-> 3000, output |-> 6000]) @@
         ("gpt-4-turbo" :> [input |-> 1000, output |-> 3000]) @@
         ("gpt-4-turbo-preview" :> [input |-> 1000, output |-> 3000]) @@
         ("gpt-3.5-turbo" :> [input |-> 150, output |-> 200]) @@
         ("gpt-3.5-turbo-0125" :> [input |-> 150, output |-> 200])
    ELSE ("claude-3-5-sonnet-20241022" :> [input |-> 300, output |-> 1500]) @@
         ("claude-3-5-sonnet-20240620" :> [input |-> 300, output |-> 1500]) @@
         ("claude-3-opus-20240229" :> [input |-> 1500, output |-> 7500]) @@
         ("claude-3-sonnet-20240229" :> [input |-> 300, output |-> 1500]) @@
         ("claude-3-haiku-20240307" :> [input |-> 25, output |-> 125])

\* The model whose pricing _calculate_cost uses for a model not in PRICING.
DefaultPricingModel(p) ==
    IF p = "openai" THEN "gpt-3.5-turbo" ELSE "claude-3-5-sonnet-20241022"

\* The model identifiers the cost lookup is asked about: every priced model
\* and the unknown ones.
CostModels(p) == DOMAIN Pricing(p) \cup ModelsOf(p)

\* Defective variant of CalculateCost: an unknown model is looked up as it is.
CalculateCostNoFallback(p, m, prompt_tokens, completion_tokens) ==
    IF m \notin DOMAIN Pricing(p)
    THEN [status |-> "KeyError", value |-> 0]
    ELSE [status |-> "ok",
          value |-> prompt_tokens * Pricing(p)[m].input
                    + completion_tokens * Pricing(p)[m].output]

\* _calculate_cost(model, prompt_tokens, completion_tokens): the cost in units
\* of 0.00000001 USD, i.e. (tokens / 1000) * rate with tokens and rate as
\* exact numbers; self.PRICING[model] raises KeyError for a missing key.
CalculateCost(p, m, prompt_tokens, completion_tokens) ==
    LET key == IF m \notin DOMAIN Pricing(p) THEN DefaultPricingModel(p) ELSE m
    IN  IF key \notin DOMAIN Pricing(p)
        THEN [status |-> "KeyError", value |-> 0]
        ELSE [status |-> "ok",
              value |-> prompt_tokens * Pricing(p)[key].input
                        + completion_tokens * Pricing(p)[key].output]

\* max_tokens: Optional[int] = None, as the caller gave it.
NoMaxTokens == [present |-> FALSE, value |-> 0]

MaxTokensArgs == {NoMaxTokens} \cup {[present |-> TRUE, value |-> v] : v \in 0..MaxCostTokens}

\* The completion tokens estimate_cost assumes when max_tokens is falsy.
DefaultEstimateTokens == 100

\* max_tokens or default: Python's or yields the default for None and for 0.
OrDefault(max_tokens, default) ==
    IF max_tokens.present /\ max_tokens.value # 0 THEN max_tokens.value ELSE default

\* len(prompt) // 4
EstimatedPromptTokens(prompt_len) == prompt_len \div 4

\* estimate_cost(prompt, model, max_tokens): the arguments it hands to
\* _calculate_cost.
EstimateArgs(p, m, prompt_len, max_tokens) ==
    [provider |-> p, model |-> m, prompt_tokens |-> EstimatedPromptTokens(prompt_len),
     completion_tokens |-> OrDefault(max_tokens, DefaultEstimateTokens)]

\* estimate_cost(prompt, model, max_tokens)
EstimateCost(p, m, prompt_len, max_tokens) ==
    LET args == EstimateArgs(p, m, prompt_len, max_tokens)
    IN  CalculateCost(p, m, args.prompt_tokens, args.completion_tokens)

\* No estimate_cost call made the latest cost lookup.
NoEstimate == [provider |-> "None", model |-> NoModel, prompt_len |-> 0,
               max_tokens |-> NoMaxTokens, result |-> NoCost]

\* provider._calculate_cost(m, prompt_tokens, completion_tokens) is called
\* (as generate does with the usage of a response).
CalculateCostCall(p, m, prompt_tokens, completion_tokens) ==
    /\ cost_args' = [provider |-> p, model |-> m, prompt_tokens |-> prompt_tokens,
                     completion_tokens |-> completion_tokens]
    /\ cost' = CalculateCost(p, m, prompt_tokens, completion_tokens)
    /\ estimate' = NoEstimate
    /\ UNCHANGED <<app_config, ctor, clients, fresult, tasks, convs>>
    /\ UNCHANGED <<request, adapters, calls, caller>>
    /\ UNCHANGED <<pvars, cvars>>

\* provider.estimate_cost(prompt, m, max_tokens) is called: it makes the cost
\* lookup with its estimated token counts and returns the result.
EstimateCostCall(p, m, prompt_len, max_tokens) ==
    /\ cost_args' = EstimateArgs(p, m, prompt_len, max_tokens)
    /\ cost' = EstimateCost(p, m, prompt_len, max_tokens)
    /\ estimate' = [provider |-> p, model |-> m, prompt_len |-> prompt_len,
                    max_tokens |-> max_tokens,
                    result |-> EstimateCost(p, m, prompt_len, max_tokens)]
    /\ UNCHANGED <<app_config, ctor, clients, fresult, tasks, convs>>
    /\ UNCHANGED <<request, adapters, calls, caller>>
    /\ UNCHANGED <<pvars, cvars>>

InitCost ==
    /\ NoProvider
    /\ NoConversation
    /\ app_config = "None"
    /\ ctor = NoCtor
    /\ clients = 0
    /\ fresult = NoResult
    /\ cost_args = NoCostArgs
    /\ cost = NoCost
    /\ tasks = "None"
    /\ convs = "None"
    /\ estimate = NoEstimate
    /\ request = "None"
    /\ adapters = "None"
    /\ calls = "None"
    /\ caller = "None"

NextCost ==
    \/ \E p \in Providers : \E m \in CostModels(p) :
           \E prompt_tokens \in 0..MaxCostTokens, completion_tokens \in 0..MaxCostTokens :
               CalculateCostCall(p, m, prompt_tokens, completion_tokens)
    \/ \E p \in Providers : \E m \in CostModels(p) :
           \E prompt_len \in 0..MaxPromptLen, max_tokens \in MaxTokensArgs :
               EstimateCostCall(p, m, prompt_len, max_tokens)

\* The cost lookup applied to one request after another.
SpecCost == InitCost /\ [][NextCost]_vars

\* ------------------------------------------------- two concurrent runs
\* The tasks of the event loop that run run_conversation(), and the
\* ModelConversation objects they can run it on.
Tasks == {1, 2}

Convs == {1, 2}

\* Two ModelConversation objects after __init__, and two tasks created for
\* run_conversation(): on two objects or on the same one.
InitTasks ==
    /\ convs \in [Convs -> [num_turns : 1..MaxTurns, initial_prompt : {"ping"},
                            conversation_history : {<<>>}]]
    /\ \E o \in Convs :
           tasks = [t \in Tasks |->
                       [conv |-> IF t = 1 THEN 1 ELSE o, tpc |-> "created", turn |-> 0,
                        current_prompt |-> "None", current_speaker |-> "None",
                        returned |-> <<>>]]

\* Task t runs run_conversation() up to its first await.
TaskRunConversation(t) ==
    /\ tasks[t].tpc = "created"
    /\ tasks' = [tasks EXCEPT ![t] =
                    [@ EXCEPT !.tpc = "awaiting",
                              !.current_prompt = convs[tasks[t].conv].initial_prompt,
                              !.current_speaker = "Model 1"]]
    /\ UNCHANGED <<convs, app_config, ctor, clients, fresult, cost_args, cost>>
    /\ UNCHANGED <<pvars, cvars, fvars>>

\* The send_message task t awaits returns response: t appends the turn to the
\* history of its object and goes on to the next await or returns the history.
TaskSendMessageReturns(t, response) ==
    LET o == tasks[t].conv
        entry == [speaker |-> tasks[t].current_speaker, message |-> response,
                  by |-> t, step |-> tasks[t].turn + 1]
        history == Append(convs[o].conversation_history, entry)
        last == ~(tasks[t].turn + 1 < LoopLength(convs[o].num_turns))
    IN  /\ tasks[t].tpc = "awaiting"
        /\ convs' = [convs EXCEPT ![o].conversation_history = history]
        /\ tasks' = [tasks EXCEPT ![t] =
                        [@ EXCEPT !.turn = @ + 1,
                                  !.current_prompt = response,
                                  !.current_speaker = NextSpeaker(tasks[t].current_speaker),
                                  !.tpc = IF last THEN "completed" ELSE "awaiting",
                                  !.returned = IF last THEN history ELSE <<>>]]
        /\ UNCHANGED <<app_config, ctor, clients, fresult, cost_args, cost>>
        /\ UNCHANGED <<pvars, cvars, fvars>>

\* The send_message task t awaits raises: the exception ends the task.
TaskSendMessageRaises(t) ==
    /\ tasks[t].tpc = "awaiting"
    /\ tasks' = [tasks EXCEPT ![t].tpc = "failed"]
    /\ UNCHANGED <<convs, app_config, ctor, clients, fresult, cost_args, cost>>
    /\ UNCHANGED <<pvars, cvars, fvars>>

InitConc ==
    /\ NoProvider
    /\ NoConversation
    /\ app_config = "None"
    /\ ctor = NoCtor
    /\ clients = 0
    /\ fresult = NoResult
    /\ cost_args = NoCostArgs
    /\ cost = NoCost
    /\ InitTasks
    /\ NoMore

NextConc ==
    \/ \E t \in Tasks : TaskRunConversation(t)
    \/ \E t \in Tasks, response \in Msgs : TaskSendMessageReturns(t, response)
    \/ \E t \in Tasks : TaskSendMessageRaises(t)

\* Two run_conversation() tasks interleaved by the event loop at their awaits.
SpecConc == InitConc /\ [][NextConc]_vars

\* The factory, the cost lookup and the concurrent runs are not in use.
NoEvars ==
    /\ app_config = "None"
    /\ ctor = NoCtor
    /\ clients = 0
    /\ fresult = NoResult
    /\ cost_args = NoCostArgs
    /\ cost = NoCost
    /\ tasks = "None"
    /\ convs = "None"

\* Nothing but the conversation (or the provider adapter) is in use.
NoExtras == NoEvars /\ NoMore

\* ------------------------------------------------- generate calls on one event loop
\* The adapter objects (an OpenAIProvider and an AnthropicProvider) and the
\* calls made on them by coroutines of one event loop.
Adapters == {1, 2}

CallIds == {1, 2}

ProviderOf(a) == IF a = 1 THEN "openai" ELSE "anthropic"

\* What the backend can answer to an attempt of these calls.
CallResponses(p) ==
    {r \in Responses(p) : r.shape = "empty"
                            \/ (r.shape = "ok" /\ r.prompt_tokens = 1 /\ r.completion_tokens = 1
                                /\ r.total_tokens = (IF p = "openai" THEN 2 ELSE 0))}

CallExceptions ==
    {e \in Exceptions : e.cls \in {"RateLimitError", "Exception"}
                          /\ e.text = <<"Connection", "reset">>}

\* _calculate_cost with the adapter's table as it is when the call is made.
CostFrom(table, p, m, prompt_tokens, completion_tokens) ==
    LET key == IF m \notin DOMAIN table THEN DefaultPricingModel(p) ELSE m
    IN  IF key \notin DOMAIN table
        THEN [status |-> "KeyError", value |-> 0]
        ELSE [status |-> "ok",
              value |-> prompt_tokens * table[key].input + completion_tokens * table[key].output]

\* Defective variant of PricingAfterLookup: the rates found for an unknown
\* model are stored in the table under its name.
PricingAfterLookupCached(table, p, m) ==
    IF m \in DOMAIN table THEN table ELSE table @@ (m :> table[DefaultPricingModel(p)])

\* self.PRICING after _calculate_cost: the method rebinds its local name
\* model and reads the table; it writes nothing.
PricingAfterLookup(table, p, m) == table

\* Defective variant of Runnable: the backoff is a blocking sleep, so nothing
\* else runs on the event loop while some call is backing off.
RunnableBlockingSleep(c) == \A d \in CallIds \ {c} : calls[d].cpc # "backoff"

\* Whether the event loop can run the next step of call c: the backoff is
\* await asyncio.sleep(wait_time), which suspends only the coroutine awaiting it.
Runnable(c) == TRUE

NoCall == [op |-> "None", adapter |-> 0, model |-> NoModel, cpc |-> "none", attempt |-> 0,
           calls_made |-> 0, log |-> <<>>, outcome |-> NoOutcome, cost |-> NoCost,
           models |-> {}, during |-> FALSE]

\* Some other call is suspended in its backoff sleep.
OtherInBackoff(c) == \E d \in CallIds \ {c} : calls[d].cpc = "backoff"

\* calls after call c took a step to the record new; during says that the
\* call has run, from its start on, inside one backoff sleep of another call.
StepOf(c, new) ==
    [x \in CallIds |->
        IF x = c THEN [new EXCEPT !.during = calls[c].during /\ OtherInBackoff(c)]
        ELSE calls[x]]

\* Two adapters after construction.
InitCalls ==
    /\ adapters \in [Adapters -> [provider : Providers, max_retries : 0..MaxCallRetries,
                                   pricing : {Pricing(p) : p \in Providers}]]
    /\ \A a \in Adapters :
           /\ adapters[a].provider = ProviderOf(a)
           /\ adapters[a].pricing = Pricing(ProviderOf(a))
    /\ calls = [c \in CallIds |-> NoCall]

\* Call c: generate(prompt, m) on adapter a, up to the first awaited create.
CallGenerate(c, a, m) ==
    LET R == adapters[a].max_retries
        started == [NoCall EXCEPT !.op = "generate", !.adapter = a, !.model = m]
    IN  /\ calls[c].cpc = "none"
        /\ Runnable(c)
        /\ calls' = [calls EXCEPT ![c] =
               IF InRange(0, R)
               THEN [started EXCEPT !.cpc = "attempt", !.calls_made = 1,
                                    !.during = OtherInBackoff(c)]
               ELSE [started EXCEPT !.cpc = "done", !.during = OtherInBackoff(c),
                                    !.outcome = AfterApiCall(adapters[a].provider,
                                                             NoneResponse, m)]]
        /\ UNCHANGED <<adapters, estimate, request, caller>>
        /\ UNCHANGED <<pvars, cvars, evars>>

\* The create awaited by call c returns resp: generate extracts, looks up the
\* cost and returns.
CallTransportReturns(c, resp) ==
    LET a == calls[c].adapter
        p == adapters[a].provider
        m == calls[c].model
        result == AfterApiCall(p, resp, m)
    IN  /\ calls[c].cpc = "attempt"
        /\ Runnable(c)
        /\ resp \in CallResponses(p)
        /\ calls' = StepOf(c, [calls[c] EXCEPT
                                  !.cpc = "done",
                                  !.log = Append(@, resp.shape),
                                  !.outcome = result,
                                  !.cost = IF result.type = "result"
                                           THEN CostFrom(adapters[a].pricing, p, m,
                                                         resp.prompt_tokens,
                                                         resp.completion_tokens)
                                           ELSE NoCost])
        /\ adapters' = IF result.type = "result"
                       THEN [adapters EXCEPT ![a].pricing = PricingAfterLookup(@, p, m)]
                       ELSE adapters
        /\ UNCHANGED <<estimate, request, caller>>
        /\ UNCHANGED <<pvars, cvars, evars>>

\* The create awaited by call c raises e: re-raised on the last attempt,
\* otherwise the call starts its backoff sleep.
CallTransportRaises(c, e) ==
    LET a == calls[c].adapter
    IN  /\ calls[c].cpc = "attempt"
        /\ Runnable(c)
        /\ calls' = StepOf(c,
               IF IsLastAttempt(calls[c].attempt, adapters[a].max_retries)
               THEN [calls[c] EXCEPT !.cpc = "done", !.log = Append(@, e.cls),
                                     !.outcome = MapException(adapters[a].provider, e,
                                                              calls[c].model)]
               ELSE [calls[c] EXCEPT !.cpc = "backoff", !.log = Append(@, e.cls)])
        /\ UNCHANGED <<adapters, estimate, request, caller>>
        /\ UNCHANGED <<pvars, cvars, evars>>

\* The backoff sleep of call c ends: next iteration of its retry loop. No
\* other call has run inside this sleep from now on.
CallBackoffEnds(c) ==
    LET a == calls[c].adapter
        next == calls[c].attempt + 1
    IN  /\ calls[c].cpc = "backoff"
        /\ Runnable(c)
        /\ calls' = [x \in CallIds |->
               IF x # c THEN [calls[x] EXCEPT !.during = FALSE]
               ELSE IF InRange(next, adapters[a].max_retries)
               THEN [calls[c] EXCEPT !.cpc = "attempt", !.attempt = next,
                                     !.calls_made = @ + 1,
                                     !.during = calls[c].during /\ OtherInBackoff(c)]
               ELSE [calls[c] EXCEPT !.cpc = "done", !.attempt = next,
                                     !.during = calls[c].during /\ OtherInBackoff(c),
                                     !.outcome = AfterApiCall(adapters[a].provider,
                                                              NoneResponse, calls[c].model)]]
        /\ UNCHANGED <<adapters, estimate, request, caller>>
        /\ UNCHANGED <<pvars, cvars, evars>>

\* Call c: estimate_cost(prompt, m, max_tokens) on adapter a.
CallEstimateCost(c, a, m, prompt_len, max_tokens) ==
    LET p == adapters[a].provider
        args == EstimateArgs(p, m, prompt_len, max_tokens)
    IN  /\ calls[c].cpc = "none"
        /\ Runnable(c)
        /\ calls' = [calls EXCEPT ![c] =
               [NoCall EXCEPT !.op = "estimate_cost", !.adapter = a, !.model = m,
                              !.cpc = "done", !.during = OtherInBackoff(c),
                              !.cost = CostFrom(adapters[a].pricing, p, m,
                                                args.prompt_tokens, args.completion_tokens)]]
        /\ adapters' = [adapters EXCEPT ![a].pricing = PricingAfterLookup(@, p, m)]
        /\ UNCHANGED <<estimate, request, caller>>
        /\ UNCHANGED <<pvars, cvars, evars>>

\* Call c: get_available_models() on adapter a, a new list of the table's keys.
CallGetAvailableModels(c, a) ==
    /\ calls[c].cpc = "none"
    /\ Runnable(c)
    /\ calls' = [calls EXCEPT ![c] =
           [NoCall EXCEPT !.op = "get_available_models", !.adapter = a, !.cpc = "done",
                          !.during = OtherInBackoff(c),
                          !.models = DOMAIN adapters[a].pricing]]
    /\ UNCHANGED <<adapters, estimate, request, caller>>
    /\ UNCHANGED <<pvars, cvars, evars>>

InitCallsSpec ==
    /\ NoProvider
    /\ NoConversation
    /\ NoEvars
    /\ estimate = "None"
    /\ request = "None"
    /\ caller = "None"
    /\ InitCalls

NextCalls ==
    \/ \E c \in CallIds, a \in Adapters : \E m \in ModelsOf(ProviderOf(a)) :
           CallGenerate(c, a, m)
    \/ \E c \in CallIds : \E resp \in CallResponses("openai") \cup CallResponses("anthropic") :
           CallTransportReturns(c, resp)
    \/ \E c \in CallIds, e \in CallExceptions : CallTransportRaises(c, e)
    \/ \E c \in CallIds : CallBackoffEnds(c)
    \/ \E c \in CallIds, a \in Adapters : \E m \in ModelsOf(ProviderOf(a)) :
           \E prompt_len \in {0, MaxPromptLen}, max_tokens \in {NoMaxTokens, [present |-> TRUE, value |-> 1]} :
               CallEstimateCost(c, a, m, prompt_len, max_tokens)
    \/ \E c \in CallIds, a \in Adapters : CallGetAvailableModels(c, a)

\* Two calls on two adapters, interleaved by the event loop at their awaits.
SpecCalls == InitCallsSpec /\ [][NextCalls]_vars

\* ------------------------------------------------- the request generate builds
\* The max_tokens AnthropicProvider.generate sends when the caller's is falsy.
DefaultAnthropicMaxTokens == 1000

\* request_params of generate(prompt, model, max_tokens=...): the OpenAI
\* adapter adds max_tokens only "if max_tokens:", the Anthropic adapter always
\* sends "max_tokens or 1000".
RequestParams(p, m, prompt, max_tokens) ==
    IF p = "openai"
    THEN [model |-> m, prompt |-> prompt,
          has_max_tokens |-> (max_tokens.present /\ max_tokens.value # 0),
          max_tokens |-> IF max_tokens.present /\ max_tokens.value # 0
                         THEN max_tokens.value ELSE 0]
    ELSE [model |-> m, prompt |-> prompt, has_max_tokens |-> TRUE,
          max_tokens |-> OrDefault(max_tokens, DefaultAnthropicMaxTokens)]

NoRequest == [provider |-> "None", given |-> NoMaxTokens, status |-> "None",
              params |-> [model |-> NoModel, prompt |-> "None", has_max_tokens |-> FALSE,
                          max_tokens |-> 0]]

\* generate(prompt, m, max_tokens=...) of provider p prepares request_params;
\* nothing in that step raises.
BuildRequest(p, m, prompt, max_tokens) ==
    /\ request' = [provider |-> p, given |-> max_tokens, status |-> "ok",
                   params |-> RequestParams(p, m, prompt, max_tokens)]
    /\ UNCHANGED <<estimate, adapters, calls, caller>>
    /\ UNCHANGED <<pvars, cvars, evars>>

InitRequest ==
    /\ NoProvider
    /\ NoConversation
    /\ NoEvars
    /\ estimate = "None"
    /\ request = NoRequest
    /\ adapters = "None"
    /\ calls = "None"
    /\ caller = "None"

NextRequest ==
    \E p \in Providers : \E m \in CostModels(p) :
        \E prompt \in Msgs, max_tokens \in MaxTokensArgs :
            BuildRequest(p, m, prompt, max_tokens)

\* generate's request preparation applied to one call after another.
SpecRequest == InitRequest /\ [][NextRequest]_vars

InitConv == NoProvider /\ InitConversation /\ NoExtras

NextConv ==
    \/ RunConversation
    \/ \E response \in Msgs \cup ErrorTexts : SendMessageReturns(response)
    \/ \E response \in Msgs \cup ErrorTexts : SendMessageReturnsCallbackRaises(response)
    \/ \E e \in AdapterErrors : SendMessageRaises(e)

SpecConv == InitConv /\ [][NextConv]_vars

\* One adapter, constructed, and the generate calls made on it.
Init == InitProvider /\ NoConversation /\ NoExtras

Next ==
    \/ \E m \in ModelsOf(provider) : Generate(m)
    \/ \E resp \in Responses(provider) : TransportReturns(resp)
    \/ \E e \in Exceptions : TransportRaises(e)
    \/ BackoffEnds

Spec == Init /\ [][Next]_vars

\* ------------------------------------------------- a caller awaiting one operation
\* Largest max_retries of the adapter whose caller is followed to the end.
MaxLiveRetries == 2

\* A caller that awaits generate calls on one adapter, or run_conversation
\* invocations on one orchestrator.
InitLive ==
    /\ NoEvars
    /\ estimate = "None"
    /\ request = "None"
    /\ adapters = "None"
    /\ calls = "None"
    /\ \/ caller = "generate" /\ InitProvider /\ NoConversation
          /\ max_retries <= MaxLiveRetries
       \/ caller = "run_conversation" /\ NoProvider /\ InitConversation

NextLive ==
    \/ caller = "generate" /\ Next
    \/ caller = "run_conversation" /\ NextConv

\* The awaited create of the current attempt returns or raises.
AttemptEnds ==
    \/ \E resp \in Responses(provider) : TransportReturns(resp)
    \/ \E e \in Exceptions : TransportRaises(e)

\* The awaited send_message returns or raises, and the callback invoked with
\* its reply returns or raises.
StepEnds ==
    \/ \E response \in Msgs \cup ErrorTexts : SendMessageReturns(response)
    \/ \E response \in Msgs \cup ErrorTexts : SendMessageReturnsCallbackRaises(response)
    \/ \E e \in AdapterErrors : SendMessageRaises(e)

\* Every transport attempt, every backoff sleep and every send_message with
\* its callback eventually ends; nothing obliges the caller to start a call.
SpecLive ==
    /\ InitLive
    /\ [][NextLive]_vars
    /\ WF_vars(caller = "generate" /\ AttemptEnds)
    /\ WF_vars(caller = "generate" /\ BackoffEnds)
    /\ WF_vars(caller = "run_conversation" /\ StepEnds)

\* ================================================================ properties
\* Helpers of the properties (stated without the operators of the model).
RECURSIVE SeqSum(_)
SeqSum(q) == IF q = <<>> THEN 0 ELSE Head(q) + SeqSum(Tail(q))

Taxonomy == {"InvalidConfig", "RateLimited", "ModelNotFound", "ProviderFailure"}

\* The texts of Texts that hold both "model" and "not found", in any case.
ModelNotFoundTexts == { <<"The", "Model", "x", "was", "Not Found">> }

\* The current call has ended because its last transport attempt failed.
EndedByTransportFailure == pc = "done" /\ lastExc # NoExc

\* The current call has ended after a transport attempt that returned.
EndedAfterTransportSuccess == pc = "done" /\ lastExc = NoExc /\ calls_made >= 1

AllAttemptsFailed == Len(failLog) = calls_made

AuthFailure(e) == e.cls = "AuthenticationError"

ModelNotFoundFailure(e) == e.cls = "APIError" /\ e.text \in ModelNotFoundTexts

\* A failure that is neither a rate-limit signal nor one of the two kinds the
\* taxonomy calls not retried.
OtherRetryableFailure(e) ==
    \/ e.cls = "Exception"
    \/ e.cls = "APIError" /\ e.text \notin ModelNotFoundTexts

C2_LastFailureKind ==
    (pc = "done" /\ max_retries >= 0 /\ AllAttemptsFailed /\ calls_made = max_retries + 1) =>
        /\ outcome.type = "error"
        /\ failLog[Len(failLog)] => outcome.kind = "RateLimited"
        /\ lastExc.cls = "RateLimitError" => outcome.kind = "RateLimited"
        /\ OtherRetryableFailure(lastExc) => outcome.kind = "ProviderFailure"

\* C2 witness: the budget is exhausted, the first failure was not a rate-limit
\* signal and the last one was.
C2_Witness ==
    /\ pc = "done"
    /\ Len(failLog) >= 2
    /\ calls_made = max_retries + 1
    /\ ~failLog[1]
    /\ failLog[Len(failLog)]
    /\ outcome.kind = "RateLimited"

\* C3: k rate-limit failures followed by a returned response (so max_retries >= k):
\* the waits are exactly 1, 2, 4, ..., 2^(k-1), 2^k - 1 seconds in total, and a
\* well-formed response is returned as the result; a call is not ended by k
\* failures when max_retries >= k; the first attempt of every call, also of a
\* later call on the same adapter, has attempt number 0.
C3_RateLimitBackoff ==
    /\ (EndedAfterTransportSuccess /\ \A i \in DOMAIN failLog : failLog[i]) =>
           /\ Len(failLog) = calls_made - 1
           /\ max_retries >= Len(failLog)
           /\ sleeps = [i \in 1..Len(failLog) |-> 2 ^ (i - 1)]
           /\ SeqSum(sleeps) = 2 ^ Len(failLog) - 1
           /\ lastResp.shape = "ok" =>
                  /\ outcome.type = "result"
                  /\ outcome.prompt_tokens = lastResp.prompt_tokens
                  /\ outcome.completion_tokens = lastResp.completion_tokens
    /\ (EndedByTransportFailure /\ max_retries >= 0) => Len(failLog) > max_retries
    /\ (pc = "attempt" /\ calls_made = 1) => attempt = 0

\* C3 witness: the second call on an adapter ended with a result after three
\* rate-limit failures and waits of 1, 2 and 4 seconds.
C3_Witness ==
    /\ pc = "done"
    /\ callNo = 2
    /\ failLog = <<TRUE, TRUE, TRUE>>
    /\ sleeps = <<1, 2, 4>>
    /\ outcome.type = "result"

\* C4: the wait after failed attempt i (from 0) is 2^i seconds after a
\* rate-limit signal and min(2^i, 60) seconds, never more than 60, after any
\* other failure; every failed attempt but the final allowed one is followed by
\* one wait, and the final one by none.
C4_WaitTimes ==
    /\ \A i \in DOMAIN sleeps :
           /\ failLog[i] => sleeps[i] = 2 ^ (i - 1)
           /\ ~failLog[i] =>
                  /\ sleeps[i] = (IF 2 ^ (i - 1) <= 60 THEN 2 ^ (i - 1) ELSE 60)
                  /\ sleeps[i] <= 60
    /\ pc = "backoff" => Len(sleeps) = Len(failLog)
    /\ pc = "attempt" => Len(sleeps) = Len(failLog)
    /\ EndedByTransportFailure =>
           /\ Len(sleeps) = Len(failLog) - 1
           /\ max_retries >= 0 => Len(failLog) = max_retries + 1
    /\ EndedAfterTransportSuccess => Len(sleeps) = Len(failLog)

\* C4 witness: a call ended by the failure of attempt 7; the wait after attempt
\* 6, which was not a rate-limit failure, was capped to 60 seconds and none
\* followed attempt 7.
C4_Witness ==
    /\ EndedByTransportFailure
    /\ Len(failLog) = 8
    /\ Len(sleeps) = 7
    /\ ~failLog[7]
    /\ sleeps[7] = 60
    /\ failLog[6]
    /\ sleeps[6] = 32

\* C5 as claimed: a transport attempt that fails with an authentication failure
\* or a model-not-found failure is not retried: no backoff wait follows it, the
\* call ends at once with InvalidConfig or ModelNotFound, and when it was the
\* first attempt exactly one attempt was made.
C5_NoRetryOfAuthOrModelNotFound ==
    (max_retries >= 0 /\ (AuthFailure(lastExc) \/ ModelNotFoundFailure(lastExc))) =>
        /\ pc = "done"
        /\ Len(sleeps) = Len(failLog) - 1
        /\ Len(failLog) = 1 => (calls_made = 1 /\ sleeps = <<>>)
        /\ AuthFailure(lastExc) => outcome.kind = "InvalidConfig"
        /\ ModelNotFoundFailure(lastExc) => outcome.kind = "ModelNotFound"

\* C6: the failure that leaves the retry loop is mapped to exactly one kind:
\* a rate-limit signal to RateLimited, an authentication failure to
\* InvalidConfig, an API error whose text holds "model" and "not found" to
\* ModelNotFound, every other failure (a failed extraction included) to
\* ProviderFailure.
C6_ErrorMapping ==
    (pc = "done" /\ outcome.type # "result") =>
        /\ outcome.type = "error"
        /\ outcome.kind \in Taxonomy
        /\ outcome.kind =
              (CASE lastExc.cls = "RateLimitError"      -> "RateLimited"
                 [] lastExc.cls = "AuthenticationError" -> "InvalidConfig"
                 [] ModelNotFoundFailure(lastExc)       -> "ModelNotFound"
                 [] OTHER                               -> "ProviderFailure")

\* C6 witness: a call ended in ModelNotFound for an API error whose text reads
\* "... Model ... Not Found".
C6_Witness ==
    /\ pc = "done"
    /\ lastExc.cls = "APIError"
    /\ lastExc.text = <<"The", "Model", "x", "was", "Not Found">>
    /\ outcome.kind = "ModelNotFound"

\* C7: every generate call ends in a result or in one error of the taxonomy that
\* carries the adapter's provider name, never in a raw backend exception, also
\* when extracting from the response fails; before its end a call has no outcome.
C7_ResultOrStructuredError ==
    /\ pc = "done" =>
           /\ outcome.type \in {"result", "error"}
           /\ outcome.provider = provider
           /\ outcome.type = "error" => outcome.kind \in Taxonomy
           /\ outcome.type = "result" => (lastExc = NoExc /\ lastResp.shape = "ok")
           /\ (lastExc # NoExc \/ lastResp.shape # "ok") => outcome.type = "error"
    /\ pc # "done" => outcome.type = "none"

\* C7 witness: the transport returned a response without choices/content and
\* the call ended in a ProviderFailure error naming the adapter.
C7_Witness ==
    /\ pc = "done"
    /\ lastResp.shape = "empty"
    /\ outcome.type = "error"
    /\ outcome.kind = "ProviderFailure"
    /\ outcome.provider = provider

\* C8 as claimed: every result of a successful generate call, from either
\* adapter, has total_tokens = prompt_tokens + completion_tokens.
C8_TotalIsSum ==
    (pc = "done" /\ outcome.type = "result") =>
        outcome.total_tokens = outcome.prompt_tokens + outcome.completion_tokens

\* The speaker tag and the adapter of step i (from 1): participant A is
\* "Model 1" / model1, participant B is "Model 2" / model2.
TagOfStep(i) == IF i % 2 = 1 THEN "Model 1" ELSE "Model 2"

AdapterOfStep(i) == IF i % 2 = 1 THEN "model1" ELSE "model2"

\* C9 as claimed: a conversation run with turn count N >= 1 whose adapter calls
\* all succeed makes exactly 2N adapter calls and returns exactly 2N turns, the
\* speakers alternating from participant A (odd steps adapter A, even steps
\* adapter B); the run is completed only after all 2N exchanges.
C9_RunOf2NAlternatingTurns ==
    /\ \A i \in DOMAIN adapterCalls : adapterCalls[i].adapter = AdapterOfStep(i)
    /\ Len(adapterCalls) <= 2 * num_turns
    /\ rpc = "completed" =>
           /\ Len(adapterCalls) = 2 * num_turns
           /\ Len(replies) = 2 * num_turns
           /\ Len(returned) = 2 * num_turns
           /\ \A i \in DOMAIN returned : returned[i][1] = TagOfStep(i)

\* C10 as claimed: the prompt of step 1 is the initial prompt, the prompt of
\* step i > 1 is the text returned at step i-1, history entry i holds the text
\* returned at step i with the tag of its speaker, and with echoing adapters
\* every turn's message is the initial prompt.
C10_PromptChainAndHistory ==
    /\ \A i \in DOMAIN adapterCalls :
           adapterCalls[i].prompt = (IF i = 1 THEN initial_prompt ELSE replies[i - 1])
    /\ \A i \in DOMAIN replies :
           /\ i \in DOMAIN conversation_history
           /\ conversation_history[i] = <<TagOfStep(i), replies[i]>>
    /\ (\A i \in DOMAIN replies : replies[i] = adapterCalls[i].prompt) =>
           \A i \in DOMAIN replies : conversation_history[i][2] = initial_prompt

\* The entries of conversation_history the current invocation appended.
TurnsOfRun ==
    SubSeq(conversation_history, Len(conversation_history) - Len(replies) + 1,
           Len(conversation_history))

\* C11 as claimed: when the adapter call of step i fails (also with the
\* adapters the application wires in, ClaudeHandler and OpenAIHandler), the run
\* is failed at once: no adapter call after call i, no turn recorded for step
\* i, no sink invocation for it, nothing returned.
C11_AbortOnAdapterFailure ==
    \A f \in failedSteps :
        /\ rpc = "failed"
        /\ Len(adapterCalls) = f.step
        /\ Len(replies) = f.step - 1
        /\ Len(sinkCalls) <= f.step - 1
        /\ returned = <<>>

\* C12 as claimed: the failure that reaches the caller is the error the adapter
\* raised, unchanged, and it carries the index of the step that failed.
C12_FailureCarriesTurnIndex ==
    raised.source = "adapter" =>
        \E f \in failedSteps :
            /\ f.step = Len(adapterCalls)
            /\ raised.error = f.error
            /\ raised.turn_index = f.step

\* C13 as claimed: after a failed run the caller has the failure and no
\* partial transcript: nothing was returned, and the turns the run had
\* accumulated are not observable on the orchestrator.
C13_NoPartialTranscript ==
    rpc = "failed" =>
        /\ returned = <<>>
        /\ TurnsOfRun = <<>>

\* C14: with a progress sink, the sink is invoked exactly once per step whose
\* adapter call returned, in step order, with (speaker, text) of that step,
\* when the turn is already the last entry of the history and before the next
\* adapter call (at every adapter call the sink invocations equal the completed
\* steps); what the sink returns changes nothing: while no exception left the
\* run it proceeds to the next call and completes exactly after 2N steps.
\* Without a sink nothing is invoked.
C14_SinkOncePerStepInOrder ==
    /\ ~has_callback => sinkCalls = <<>>
    /\ has_callback =>
           /\ Len(sinkCalls) = Len(replies)
           /\ Len(sinkSaw) = Len(sinkCalls)
           /\ \A i \in DOMAIN sinkCalls :
                  /\ sinkCalls[i] = <<TagOfStep(i), replies[i]>>
                  /\ sinkSaw[i] = sinkCalls[i]
           /\ rpc = "awaiting" => Len(sinkCalls) = Len(adapterCalls) - 1
    /\ (rpc \in {"awaiting", "completed"} /\ raised = NoRaise) =>
           /\ (rpc = "completed") = (Len(replies) = 2 * num_turns)
           /\ rpc = "awaiting" => Len(adapterCalls) = Len(replies) + 1

\* A run of four steps completed with a sink that was invoked four times and
\* whose last invocation returned False.
C14_Witness ==
    /\ has_callback
    /\ rpc = "completed"
    /\ num_turns = 2
    /\ Len(sinkCalls) = 4
    /\ sinkReturned = "False"

\* C15: when the progress sink raises at a step, the run is failed and the
\* sink's exception reaches the caller: no adapter call and no sink invocation
\* follows, nothing is returned, and a completed run had no exception.
C15_SinkFailureIsFatal ==
    /\ sinkReturned = "Raised" =>
           /\ rpc = "failed"
           /\ raised = Surfaced("callback", "CallbackError")
           /\ returned = <<>>
           /\ Len(adapterCalls) = Len(replies)
           /\ Len(sinkCalls) = Len(replies)
    /\ rpc = "completed" => raised = NoRaise /\ sinkReturned # "Raised"

\* The sink raised at the second step of a run.
C15_Witness ==
    /\ sinkReturned = "Raised"
    /\ rpc = "failed"
    /\ Len(sinkCalls) = 2

\* C16 as claimed: in any interleaving of two concurrent runs, on two
\* orchestrator objects or on the same one, the turn sequence a run returns
\* holds only that run's own turns, in the run's own order.
C16_ConcurrentRunsIsolated ==
    \A t \in Tasks :
        tasks[t].tpc = "completed" =>
            /\ Len(tasks[t].returned) = 2 * convs[tasks[t].conv].num_turns
            /\ \A i \in DOMAIN tasks[t].returned :
                   /\ tasks[t].returned[i].by = t
                   /\ tasks[t].returned[i].step = i

\* The configuration breaks a rule of the provider's validation.
InvalidConfig(p, config) ==
    \/ config.api_key = <<>>
    \/ ~StartsWith(config.api_key, KeyPrefix(p))
    \/ config.timeout <= 0

UnknownOrUnconfigured ==
    \/ fresult.arg \notin Providers
    \/ ~Truthy(KeyOf(fresult.arg, app_config))

\* What create_provider does in the two failure cases the claim names: it
\* raises, calls no constructor, and lists the registered names when the name
\* is unknown.
FailsWithoutConstructing ==
    /\ fresult.status \in {"ValueError", "InvalidConfigError"}
    /\ fresult.adapter = NoAdapter
    /\ ctor = NoCtor
    /\ fresult.clients = 0
    /\ fresult.arg \notin Providers => fresult.message.listed = Providers

\* C18 as claimed: create_provider fails without constructing an adapter when
\* the name is not registered or the credential is absent or empty, and in
\* every other case it constructs the adapter of the registered class with
\* timeout and max_retries from the settings.
C18_Original ==
    fresult.op = "create" =>
        IF UnknownOrUnconfigured
        THEN FailsWithoutConstructing
        ELSE /\ fresult.status = "ok"
             /\ fresult.adapter.cls = fresult.arg
             /\ fresult.adapter.timeout = app_config.request_timeout
             /\ fresult.adapter.max_retries = app_config.max_retries

\* C18 amended: in every other case create_provider calls the constructor of
\* the registered class with the credential, timeout and max_retries of the
\* settings; the adapter is constructed with them unless the constructor's
\* validation rejects the configuration (wrong prefix, timeout <= 0), and then
\* create_provider raises InvalidConfigError and no adapter or client exists.
C18_CreateProvider ==
    fresult.op = "create" =>
        IF UnknownOrUnconfigured
        THEN FailsWithoutConstructing
        ELSE /\ ctor = [cls |-> fresult.arg,
                        config |-> [api_key |-> KeyOf(fresult.arg, app_config).text,
                                    timeout |-> app_config.request_timeout,
                                    max_retries |-> app_config.max_retries]]
             /\ IF InvalidConfig(ctor.cls, ctor.config)
                THEN /\ fresult.status = "InvalidConfigError"
                     /\ fresult.adapter = NoAdapter
                     /\ fresult.clients = 0
                ELSE /\ fresult.status = "ok"
                     /\ fresult.adapter.cls = fresult.arg
                     /\ fresult.adapter.api_key = ctor.config.api_key
                     /\ fresult.adapter.timeout = app_config.request_timeout
                     /\ fresult.adapter.max_retries = app_config.max_retries
                     /\ fresult.clients = 1

\* create_provider constructed an AnthropicProvider from settings whose
\* max_retries is 0.
C18_Witness ==
    /\ fresult.op = "create"
    /\ fresult.status = "ok"
    /\ fresult.adapter.cls = "anthropic"
    /\ fresult.adapter.max_retries = 0
    /\ app_config.max_retries = 0

\* C19: get_default_provider returns openai whenever the openai credential is
\* present, anthropic when only the anthropic credential is present, and
\* raises "No providers are configured" when neither is; a name it returns is
\* mapped to true by get_available_providers.
C19_DefaultProvider ==
    fresult.op = "default" =>
        LET hasOpenAI == Truthy(app_config.openai_api_key)
            hasAnthropic == Truthy(app_config.anthropic_api_key)
        IN  /\ hasOpenAI => fresult.status = "ok" /\ fresult.name = "openai"
            /\ (~hasOpenAI /\ hasAnthropic) =>
                   fresult.status = "ok" /\ fresult.name = "anthropic"
            /\ (~hasOpenAI /\ ~hasAnthropic) =>
                   /\ fresult.status = "ValueError"
                   /\ fresult.message.text = "No providers are configured"
                   /\ fresult.name = "None"
            /\ fresult.status = "ok" => AvailableProviders(app_config)[fresult.name]

\* The default provider is anthropic: the openai key is the empty string.
C19_Witness ==
    /\ fresult.op = "default"
    /\ fresult.name = "anthropic"
    /\ app_config.openai_api_key.present
    /\ app_config.openai_api_key.text = <<>>

\* C20: for every model identifier and non-negative token counts the cost
\* lookup does not fail and returns (input/1000)*inputRate +
\* (output/1000)*outputRate, with the model's own rates when the model is in
\* the pricing table and the default model's rates otherwise; the default
\* model is a key of the table and the result is >= 0. (Values in units of
\* 0.00000001 USD.)
C20_CostLookup ==
    /\ \A p \in Providers : DefaultPricingModel(p) \in DOMAIN Pricing(p)
    /\ cost_args # NoCostArgs =>
           LET table == Pricing(cost_args.provider)
               rates == IF cost_args.model \in DOMAIN table
                        THEN table[cost_args.model]
                        ELSE table[DefaultPricingModel(cost_args.provider)]
           IN  /\ cost.status = "ok"
               /\ cost.value = cost_args.prompt_tokens * rates.input
                                + cost_args.completion_tokens * rates.output
               /\ cost.value >= 0

\* The cost of a request for a model that is not in the table, priced with
\* the default model's rates.
C20_Witness ==
    /\ cost_args.provider = "openai"
    /\ cost_args.model \notin DOMAIN Pricing("openai")
    /\ cost_args.prompt_tokens = 2
    /\ cost_args.completion_tokens = 1
    /\ cost = [status |-> "ok", value |-> 500]

\* C21 as claimed: for a model of the pricing table and a fixed input, more
\* output tokens cost strictly more: in the cost lookup generate makes (over
\* completion-token counts) and in estimate_cost (over max_tokens, for all
\* non-negative m1 < m2 with the same prompt).
C21_MoreOutputCostsMore ==
    /\ (estimate = NoEstimate /\ cost_args # NoCostArgs
            /\ cost_args.model \in DOMAIN Pricing(cost_args.provider)) =>
           \A c \in 0..(cost_args.completion_tokens - 1) :
               CalculateCost(cost_args.provider, cost_args.model,
                             cost_args.prompt_tokens, c).value < cost.value
    /\ (estimate # NoEstimate /\ estimate.max_tokens.present
            /\ estimate.model \in DOMAIN Pricing(estimate.provider)) =>
           \A m1 \in 0..(estimate.max_tokens.value - 1) :
               EstimateCost(estimate.provider, estimate.model, estimate.prompt_len,
                            [present |-> TRUE, value |-> m1]).value
                   < estimate.result.value

\* C22 as claimed: estimate_cost equals the cost lookup applied to
\* len(prompt) // 4 input tokens and to max_tokens output tokens when the
\* caller supplied max_tokens, 100 when it did not; it makes no transport
\* call and is strictly positive for a model of the pricing table.
C22_EstimateIsCostLookup ==
    estimate # NoEstimate =>
        /\ estimate.result =
               CalculateCost(estimate.provider, estimate.model, estimate.prompt_len \div 4,
                             IF estimate.max_tokens.present
                             THEN estimate.max_tokens.value ELSE 100)
        /\ calls_made = 0
        /\ estimate.model \in DOMAIN Pricing(estimate.provider) => estimate.result.value > 0

\* C23 as claimed: in the Anthropic adapter the max_tokens of the native
\* request is the caller's value whenever the caller supplied one, and is the
\* default 1000 exactly when the caller omitted it; the preparation never fails.
C23_AnthropicMaxTokens ==
    (request # NoRequest /\ request.provider = "anthropic") =>
        /\ request.status = "ok"
        /\ request.params.has_max_tokens
        /\ request.given.present => request.params.max_tokens = request.given.value
        /\ (request.params.max_tokens = 1000) = ~request.given.present

SameRequest(c, d) ==
    /\ calls[c].cpc = "done"
    /\ calls[d].cpc = "done"
    /\ calls[c].op = "generate"
    /\ calls[d].op = "generate"
    /\ adapters[calls[c].adapter].provider = adapters[calls[d].adapter].provider
    /\ adapters[calls[c].adapter].max_retries = adapters[calls[d].adapter].max_retries
    /\ calls[c].model = calls[d].model

C26_Termination ==
    /\ [](calls_made <= (IF max_retries >= 0 THEN max_retries + 1 ELSE 0))
    /\ [](Len(adapterCalls) <= 2 * num_turns /\ turn <= 2 * num_turns)
    /\ (pc \in {"attempt", "backoff"}) ~> (pc = "done" /\ outcome.type \in {"result", "error"})
    /\ (rpc = "awaiting") ~> (rpc \in {"completed", "failed"})

\* A generate call returned an error after three failed attempts and two
\* backoff sleeps.
C26_Witness ==
    /\ caller = "generate"
    /\ pc = "done"
    /\ max_retries = 2
    /\ calls_made = 3
    /\ Len(sleeps) = 2
    /\ outcome.type = "error"

\* C27 as claimed: every completed run_conversation invocation, also a later
\* one on the same object, returns exactly 2N turns, all of them appended by
\* that invocation, the first being Model 1's reply to the initial prompt;
\* no turn of an earlier invocation is in the returned sequence.
C27_ReturnsOnlyOwnTurns ==
    rpc = "completed" =>
        /\ Len(returned) = 2 * num_turns
        /\ returned = TurnsOfRun
        /\ returned[1] = <<"Model 1", replies[1]>>
        /\ adapterCalls[1].prompt = initial_prompt

\* C28 as claimed: for every max_retries construction accepts, a generate call
\* that has returned made at least one transport attempt.
C28_AttemptBeforeReturn ==
    pc = "done" => calls_made >= 1

\* C29 as claimed: a credential with which the construction of one adapter was
\* accepted is rejected by the construction-time validation of the other
\* adapter (with the same timeout): no credential passes both.
C29_NoKeyPassesBoth ==
    (fresult.op = "construct" /\ fresult.status = "ok") =>
        \E p \in Providers \ {ctor.cls} : ValidateConfig(p, ctor.config) # "None"

\* C30 as claimed: for a settings object that passes validate_config,
\* get_default_provider succeeds, and create_provider on the name it returns
\* does not fail for an absent credential.
C30_ValidatedSettingsHaveDefault ==
    ValidateAppConfig(app_config) = "None" =>
        /\ fresult.op = "default" => fresult.status = "ok"
        /\ (fresult.op = "create" /\ fresult.arg = DefaultProviderResult(app_config).name) =>
               fresult.message.text # "API key not configured"

====
